---------------------------- MODULE Spec2Model ----------------------------
(***************************************************************************)
(* A model of the four analysis scripts of grammys-spotify_analysis:       *)
(*   grammy_spotify_analysis.py, cross_analysis.py, focused_analysis.py,   *)
(*   simple_analysis.py.                                                   *)
(*                                                                         *)
(* A Python str is a sequence of one-character strings.  A missing value   *)
(* (pandas NaN / None) is the one-element tuple NaN, whose element is not  *)
(* a character, so it is equal to no str.  A call that raises is the       *)
(* one-element tuple naming the exception.                                 *)
(***************************************************************************)
EXTENDS Integers, Sequences, FiniteSets, TLC

VARIABLES
    script,        \* which script's code is running: "grammy_spotify", "cross", "focused"
    pc,            \* position in the script
    artist,        \* SpecClean: the argument handed to clean_artist_name
    npieces,       \* SpecClean/SpecSplit: how many pieces the input was put together from
    result,        \* SpecClean: what clean_artist_name returned
    artist_and_title, \* SpecSplit: the 'Artist and Title' field of the chart row under study
    other_rows,    \* SpecSplit: the 'Artist and Title' fields of the chart's other rows
    split_result,  \* the columns the split step added, one record per row, or the exception
    grammy,        \* the award table: rows [Nominee, Winner]
    spotify_songs, \* the streaming chart: rows [at ('Artist and Title'), Streams]; a row's index is its position
    grammy_winners,\* grammy_spotify: the rows of grammy with Winner == True
    clean_nominee, \* column of canonical keys of the award rows
    clean_artist,  \* column of canonical keys of the chart rows
    winners,       \* the winner keys (grammy_artists in grammy_spotify, winners in cross and focused)
    is_winner,     \* per chart row: Is_Grammy_Winner / has_grammy / the isin mask
    spotify_winners,    \* indexes of the chart rows in the matched partition
    non_grammy_artists, \* indexes of the chart rows in the unmatched partition
    threshold,     \* cross: ten times the 0.9 quantile of the matched rows' Streams; -1 before it is computed
    overlooked,    \* cross: indexes of the rows of the snubbed-artist query, in its order
    top10,         \* top_grammy_streamed (grammy_spotify) / top_non_grammy (focused): row indexes
    raised,        \* the exception that ended the run, or "no"
    datasets_dir,  \* whether the datasets directory exists
    files,         \* per source file: "absent", "ok", "unreadable" (read_csv raises), "no_streams"
    producers,     \* the producer table: rows [Award, Nominee, Work, Year, Winner]
    available,     \* simple_analysis: per source file, whether main's table is not None
    log,           \* what the script has logged or printed so far, in order
    started,       \* the steps of main started so far, in order
    exit_status,   \* the exit status of the process; -1 while it runs
    works          \* grammy_spotify: the outcome of the extraction loop of analyze_producers

cleanVars == <<artist, result>>
splitVars == <<artist_and_title, other_rows>>
tableVars == <<grammy, spotify_songs>>
pipeVars == <<grammy_winners, clean_nominee, clean_artist, winners, is_winner,
              spotify_winners, non_grammy_artists, threshold, overlooked, top10, raised>>

envVars == <<datasets_dir, files, producers>>
runVars == <<available, log, started, exit_status, works>>

vars == <<script, pc, npieces, split_result, cleanVars, splitVars, tableVars, pipeVars,
          envVars, runVars>>

(***************************************************************************)
(* Values                                                                  *)
(***************************************************************************)
NaN == <<"NaN">>
None == <<"None">>
TypeError == <<"TypeError">>

\* what a step that ran to its end, or raised, leaves behind
Done(rows) == [raised |-> "no", rows |-> rows]
Raised(exc) == [raised |-> exc, rows |-> <<>>]

\* a Python str: not a missing value, not an exception
IsStr(v) == v \notin {NaN, None, TypeError}

Scripts == {"grammy_spotify", "cross", "focused"}

\* head(10), nlargest(10, ...)
TopCount == 10

(***************************************************************************)
(* Characters.  Python's \s and str.strip() agree on these three; "." in a *)
(* pattern compiled without re.DOTALL is every character but "\n"; "$" in  *)
(* a pattern compiled without re.MULTILINE is the end of the string or the *)
(* place right before a final "\n".                                        *)
(***************************************************************************)
IsSpace(c) == c \in {" ", "\n", "\t"}

UpperCase == <<"A","B","C","D","E","F","G","H","I","J","K","L","M",
               "N","O","P","Q","R","S","T","U","V","W","X","Y","Z">>
LowerCase == <<"a","b","c","d","e","f","g","h","i","j","k","l","m",
               "n","o","p","q","r","s","t","u","v","w","x","y","z">>

\* str.lower() of one character; also how re.IGNORECASE compares letters
LowerChar(c) ==
    IF \E k \in 1..26 : UpperCase[k] = c
    THEN LowerCase[CHOOSE k \in 1..26 : UpperCase[k] = c]
    ELSE c

\* str.lower()
Lower(s) == [k \in 1..Len(s) |-> LowerChar(s[k])]

Min(S) == CHOOSE x \in S : \A y \in S : x <= y
Max(S) == CHOOSE x \in S : \A y \in S : x >= y

\* the literal lit (given in lower case) stands at s[i..], letter case ignored
HasAtCI(s, i, lit) ==
    /\ i >= 1
    /\ i + Len(lit) - 1 <= Len(s)
    /\ \A k \in 1..Len(lit) : LowerChar(s[i + k - 1]) = lit[k]

\* the literal lit stands at s[i..]
HasAt(s, i, lit) ==
    /\ i >= 1
    /\ i + Len(lit) - 1 <= Len(s)
    /\ \A k \in 1..Len(lit) : s[i + k - 1] = lit[k]

(***************************************************************************)
(* The tail `.*$` tried at position q (1..Len(s)+1): `.*` runs up to the   *)
(* first "\n" at or after q, and `$` holds there only at the end of the    *)
(* string or before a final "\n".  The index of the last character matched,*)
(* or -1 when the tail does not match.                                     *)
(***************************************************************************)
TailEnd(s, q) ==
    LET nl == {p \in q..Len(s) : s[p] = "\n"}
    IN  IF nl = {} THEN Len(s)
        ELSE IF Min(nl) = Len(s) THEN Len(s) - 1
        ELSE -1

\* last index of the run of whitespace that starts at i (s[i] is whitespace)
WsRunEnd(s, i) ==
    LET stop == {p \in i..Len(s) : ~IsSpace(s[p])}
    IN  IF stop = {} THEN Len(s) ELSE Min(stop) - 1

(***************************************************************************)
(* re.sub(pattern, '', s) for a pattern that ends in `.*$`.  match[i] is   *)
(* the index of the last character of the match tried at i, or -1.  The    *)
(* leftmost match is removed; it runs to the end of the string (or to the  *)
(* final "\n"), so no second match follows it.                             *)
(***************************************************************************)
SubTail(s, match) ==
    LET hits == {i \in 1..Len(s) : match[i] # -1}
    IN  IF hits = {} THEN s
        ELSE LET i == Min(hits)
             IN  SubSeq(s, 1, i - 1) \o SubSeq(s, match[i] + 1, Len(s))

\* re.sub(r'\([^)]*\)', '', s) and re.sub(r'\[[^\]]*\]', '', s): open, then
\* everything (line breaks too) up to the first close
RECURSIVE RemoveSpansFrom(_, _, _, _)
RemoveSpansFrom(s, i, open, close) ==
    IF i > Len(s) THEN <<>>
    ELSE LET ends == {j \in (i + 1)..Len(s) : s[j] = close}
         IN  IF s[i] = open /\ ends # {}
             THEN RemoveSpansFrom(s, Min(ends) + 1, open, close)
             ELSE <<s[i]>> \o RemoveSpansFrom(s, i + 1, open, close)

RemoveSpans(s, open, close) == RemoveSpansFrom(s, 1, open, close)

\* re.sub(r'\s+', ' ', s)
RECURSIVE CollapseFrom(_, _)
CollapseFrom(s, i) ==
    IF i > Len(s) THEN <<>>
    ELSE IF IsSpace(s[i])
         THEN <<" ">> \o CollapseFrom(s, WsRunEnd(s, i) + 1)
         ELSE <<s[i]>> \o CollapseFrom(s, i + 1)

CollapseWhitespace(s) == CollapseFrom(s, 1)

\* str.strip()
Strip(s) ==
    LET keep == {p \in 1..Len(s) : ~IsSpace(s[p])}
    IN  IF keep = {} THEN <<>> ELSE SubSeq(s, Min(keep), Max(keep))

(***************************************************************************)
(* The patterns of grammy_spotify_analysis.clean_artist_name               *)
(***************************************************************************)
\* r'Feat.*$', re.IGNORECASE
MatchFeat(s, i) ==
    IF HasAtCI(s, i, <<"f","e","a","t">>) THEN TailEnd(s, i + 4) ELSE -1

\* r'Ft\.?.*$', re.IGNORECASE
MatchFt(s, i) ==
    IF HasAtCI(s, i, <<"f","t">>)
    THEN IF HasAt(s, i + 2, <<".">>) /\ TailEnd(s, i + 3) # -1
         THEN TailEnd(s, i + 3)
         ELSE TailEnd(s, i + 2)
    ELSE -1

\* r'&.*$'
MatchAmp(s, i) ==
    IF HasAt(s, i, <<"&">>) THEN TailEnd(s, i + 1) ELSE -1

\* r',.*$'
MatchComma(s, i) ==
    IF HasAt(s, i, <<",">>) THEN TailEnd(s, i + 1) ELSE -1

(***************************************************************************)
(* The patterns of cross_analysis.clean_artist_name and                    *)
(* focused_analysis.clean_artist_name                                      *)
(***************************************************************************)
\* r'\s+feat\..*$', re.IGNORECASE
MatchWsFeatDot(s, i) ==
    IF IsSpace(s[i]) /\ HasAtCI(s, WsRunEnd(s, i) + 1, <<"f","e","a","t",".">>)
    THEN TailEnd(s, WsRunEnd(s, i) + 6)
    ELSE -1

\* r'\s+&.*$', re.IGNORECASE
MatchWsAmp(s, i) ==
    IF IsSpace(s[i]) /\ HasAt(s, WsRunEnd(s, i) + 1, <<"&">>)
    THEN TailEnd(s, WsRunEnd(s, i) + 2)
    ELSE -1

\* r'\s+x\s+.*$', re.IGNORECASE: the second \s+ is greedy and gives back
\* characters until the tail matches
MatchWsXWs(s, i) ==
    IF IsSpace(s[i]) /\ HasAtCI(s, WsRunEnd(s, i) + 1, <<"x">>)
    THEN LET x  == WsRunEnd(s, i) + 1
             ok == IF x + 1 <= Len(s) /\ IsSpace(s[x + 1])
                   THEN {k \in (x + 1)..WsRunEnd(s, x + 1) : TailEnd(s, k + 1) # -1}
                   ELSE {}
         IN  IF ok = {} THEN -1 ELSE TailEnd(s, Max(ok) + 1)
    ELSE -1

(***************************************************************************)
(* clean_artist_name, the three variants                                   *)
(***************************************************************************)
\* the substitutions of grammy_spotify_analysis.clean_artist_name, on a str
clean_rules_grammy_spotify(a) ==
    LET a1 == RemoveSpans(a, "(", ")")
        a2 == RemoveSpans(a1, "[", "]")
        a3 == SubTail(a2, [i \in 1..Len(a2) |-> MatchFeat(a2, i)])
        a4 == SubTail(a3, [i \in 1..Len(a3) |-> MatchFt(a3, i)])
        a5 == SubTail(a4, [i \in 1..Len(a4) |-> MatchAmp(a4, i)])
        a6 == SubTail(a5, [i \in 1..Len(a5) |-> MatchComma(a5, i)])
        a7 == Strip(CollapseWhitespace(a6))
    IN  Strip(a7)

\* the same function with the pd.isna guard left out: re.sub is handed a float
clean_artist_name_grammy_spotify_unguarded(a) ==
    IF a = NaN THEN TypeError ELSE clean_rules_grammy_spotify(a)

clean_artist_name_grammy_spotify(a) ==
    IF a = NaN THEN <<>> ELSE clean_rules_grammy_spotify(a)

clean_artist_name_cross(a) ==
    IF a = NaN THEN <<>>
    ELSE LET a1 == RemoveSpans(a, "(", ")")
             a2 == RemoveSpans(a1, "[", "]")
             a3 == SubTail(a2, [i \in 1..Len(a2) |-> MatchWsFeatDot(a2, i)])
             a4 == SubTail(a3, [i \in 1..Len(a3) |-> MatchWsAmp(a3, i)])
             a5 == SubTail(a4, [i \in 1..Len(a4) |-> MatchWsXWs(a4, i)])
         IN  Strip(a5)

clean_artist_name_focused(a) ==
    IF a = NaN THEN <<>>
    ELSE LET a1 == RemoveSpans(a, "(", ")")
             a2 == RemoveSpans(a1, "[", "]")
             a3 == SubTail(a2, [i \in 1..Len(a2) |-> MatchWsFeatDot(a2, i)])
             a4 == SubTail(a3, [i \in 1..Len(a3) |-> MatchWsAmp(a3, i)])
             a5 == SubTail(a4, [i \in 1..Len(a4) |-> MatchWsXWs(a4, i)])
         IN  Strip(a5)

\* the clean_artist_name of script sc
clean_artist_name(sc, a) ==
    CASE sc = "grammy_spotify" -> clean_artist_name_grammy_spotify(a)
      [] sc = "cross"          -> clean_artist_name_cross(a)
      [] sc = "focused"        -> clean_artist_name_focused(a)

(***************************************************************************)
(* The variables a specification does not use keep these values.           *)
(***************************************************************************)
NoTables == grammy = <<>> /\ spotify_songs = <<>> /\ producers = <<>>

NothingComputed ==
    /\ grammy_winners = <<>>
    /\ clean_nominee = <<>>
    /\ clean_artist = <<>>
    /\ winners = {}
    /\ is_winner = <<>>
    /\ spotify_winners = <<>>
    /\ non_grammy_artists = <<>>
    /\ threshold = -1
    /\ overlooked = <<>>
    /\ top10 = <<>>
    /\ raised = "no"

\* the first step of main
load_step(sc) == IF sc \in {"cross", "focused"} THEN "load_and_preprocess_data"
                                                ELSE "load_datasets"

AllFiles == {"grammy", "spotify", "artists", "producers"}

\* every source file has been read
FilesRead ==
    /\ datasets_dir = TRUE
    /\ files = [f \in AllFiles |-> "ok"]
    /\ available = [f \in AllFiles |-> FALSE]
    /\ log = <<>>
    /\ started = <<load_step(script)>>
    /\ exit_status = -1
    /\ works = Done(<<>>)

(***************************************************************************)
(* SpecClean: clean_artist_name applied to a credit string put together    *)
(* from at most MaxPieces pieces, or to a missing value.                   *)
(***************************************************************************)
MaxPieces == 4

Pieces == { <<"a">>, <<"f","e","a","t",".">>, <<"F","t">>, <<"x">>,
            <<"(">>, <<")">>, <<"[">>, <<"]">>, <<"&">>, <<",">>,
            <<" ">>, <<"\n">> }

InitClean ==
    /\ script \in Scripts
    /\ pc = "input"
    /\ artist = <<>>
    /\ npieces = 0
    /\ result = <<>>
    /\ artist_and_title = <<>>
    /\ other_rows = <<>>
    /\ split_result = Done(<<>>)
    /\ NoTables
    /\ NothingComputed
    /\ FilesRead

\* one more piece of the credit string
AppendPiece(p) ==
    /\ pc = "input"
    /\ artist # NaN
    /\ npieces < MaxPieces
    /\ artist' = artist \o p
    /\ npieces' = npieces + 1
    /\ UNCHANGED <<script, pc, result, split_result, splitVars, tableVars, pipeVars, envVars, runVars>>

\* the field is missing in the data
Missing ==
    /\ pc = "input"
    /\ npieces = 0
    /\ artist # NaN
    /\ artist' = NaN
    /\ UNCHANGED <<script, pc, npieces, result, split_result, splitVars, tableVars, pipeVars, envVars, runVars>>

\* the call clean_artist_name(artist)
CallClean ==
    /\ pc = "input"
    /\ result' = clean_artist_name(script, artist)
    /\ pc' = "cleaned"
    /\ UNCHANGED <<script, artist, npieces, split_result, splitVars, tableVars, pipeVars, envVars, runVars>>

NextClean ==
    \/ \E p \in Pieces : AppendPiece(p)
    \/ Missing
    \/ CallClean

SpecClean == InitClean /\ [][NextClean]_vars

(***************************************************************************)
(* What the claims say about a str                                         *)
(***************************************************************************)
\* the characters of s that are not whitespace, in order
NonSpace(s) == SelectSeq(s, LAMBDA c : ~IsSpace(c))

\* s holds open and, somewhere after it, close: a span open...close
HasSpan(s, open, close) ==
    \E i \in 1..Len(s) : \E j \in (i + 1)..Len(s) : s[i] = open /\ s[j] = close

\* s[i..j] is a word of s: no whitespace in it, whitespace or an end of s around it
IsWord(s, i, j) ==
    /\ 1 <= i /\ i <= j /\ j <= Len(s)
    /\ \A k \in i..j : ~IsSpace(s[k])
    /\ (i = 1 \/ IsSpace(s[i - 1]))
    /\ (j = Len(s) \/ IsSpace(s[j + 1]))

\* s has the word w (given in lower case), in any letter case
HasWordCI(s, w) ==
    \E i \in 1..Len(s) : IsWord(s, i, i + Len(w) - 1) /\ HasAtCI(s, i, w)

FeatWords == { <<"f","e","a","t">>, <<"f","e","a","t",".">>, <<"f","t">>, <<"f","t",".">> }

\* a 'feat'/'feat.'/'ft'/'ft.' token
HasFeatToken(s) == \E w \in FeatWords : HasWordCI(s, w)

\* a whitespace-delimited x with more text after it
HasXJoin(s) ==
    \E i \in 2..Len(s) :
        /\ IsWord(s, i, i)
        /\ LowerChar(s[i]) = "x"
        /\ \E k \in (i + 1)..Len(s) : ~IsSpace(s[k])

\* a whitespace-delimited x token
HasXToken(s) == HasWordCI(s, <<"x">>)

Contains(s, c) == \E k \in 1..Len(s) : s[k] = c

(***************************************************************************)
(* Claims checked under SpecClean                                          *)
(***************************************************************************)
\* C1: normalizing twice equals normalizing once, in each variant of
\* clean_artist_name, for every credit string, line breaks included.
C1_Idempotent ==
    pc = "cleaned" => clean_artist_name(script, result) = result

\* C2: the output of clean_artist_name holds no parenthesised span, no
\* bracketed span, no feat/ft token, no '&' and no whitespace-delimited x
\* followed by further text, in each variant.
C2_NoMarkerInOutput ==
    pc = "cleaned" =>
        /\ ~HasSpan(result, "(", ")")
        /\ ~HasSpan(result, "[", "]")
        /\ ~HasFeatToken(result)
        /\ ~Contains(result, "&")
        /\ ~HasXJoin(result)

\* C3: a credit string with no parenthesis, bracket, '&' or comma and no
\* whitespace-delimited feat, feat., ft, ft. or x token comes back with the
\* same non-whitespace characters in the same order.
C3_PrimaryArtistIntact ==
    ( /\ pc = "cleaned"
      /\ artist # NaN
      /\ \A c \in {"(", ")", "[", "]", "&", ","} : ~Contains(artist, c)
      /\ ~HasFeatToken(artist)
      /\ ~HasXToken(artist) )
    => NonSpace(result) = NonSpace(artist)

\* C10: for a missing input clean_artist_name returns the empty string and
\* raises nothing, in every variant.
C10_MissingGivesEmpty ==
    (pc = "cleaned" /\ artist = NaN) => result = <<>>

\* C10's case: the focused_analysis variant has been called on a missing value
C10_Witness ==
    pc = "cleaned" /\ artist = NaN /\ script = "focused"

\* C14: the output of clean_artist_name has no leading and no trailing
\* whitespace, and no two whitespace characters in a row, in each variant,
\* also where a removed span leaves whitespace on both of its sides.
C14_WhitespaceNormalized ==
    (pc = "cleaned" /\ artist # NaN) =>
        /\ result # <<>> => ~IsSpace(result[1]) /\ ~IsSpace(result[Len(result)])
        /\ \A k \in 1..(Len(result) - 1) : ~(IsSpace(result[k]) /\ IsSpace(result[k + 1]))

(***************************************************************************)
(* The credit-string split of the three scripts                            *)
(***************************************************************************)
Delimiter == <<" ", "-", " ">>

\* The three characters that grammy_spotify_analysis.py splits on when " - "
\* is absent: an en dash read as Latin-1 (a-circumflex, U+0080, U+0093).
\* Each is written here by its Latin-1 code.
EnDashArtifact == <<"E2", "80", "93">>

\* sub in s (Python's `sub in s`)
In(sub, s) == \E i \in 1..Len(s) : HasAt(s, i, sub)

\* s.split(sep): the parts between the occurrences of sep, found left to right
RECURSIVE StrSplit(_, _)
StrSplit(s, sep) ==
    LET hits == {i \in 1..Len(s) : HasAt(s, i, sep)}
    IN  IF hits = {} THEN <<s>>
        ELSE <<SubSeq(s, 1, Min(hits) - 1)>>
             \o StrSplit(SubSeq(s, Min(hits) + Len(sep), Len(s)), sep)

\* s.split(sep, 1), which is what Series.str.split(sep, n=1) does to a str
StrSplitOnce(s, sep) ==
    LET hits == {i \in 1..Len(s) : HasAt(s, i, sep)}
    IN  IF hits = {} THEN <<s>>
        ELSE << SubSeq(s, 1, Min(hits) - 1),
                SubSeq(s, Min(hits) + Len(sep), Len(s)) >>

\* grammy_spotify_analysis.analyze_spotify_data, the lambda of 'Main Artist':
\* `' - ' in x` on a float raises TypeError
main_artist_grammy_spotify(x) ==
    IF x = NaN THEN TypeError
    ELSE IF In(Delimiter, x) THEN StrSplit(x, Delimiter)[1]
    ELSE Strip(StrSplit(x, EnDashArtifact)[1])

\* cross_analysis.load_and_preprocess_data, the part of the 'clean_artist'
\* lambda that splits: x.split(' - ')[0] if isinstance(x, str)
artist_cross(x) ==
    IF IsStr(x) THEN StrSplit(x, Delimiter)[1] ELSE <<>>

\* cross_analysis.load_and_preprocess_data, the lambda of 'song'
song_cross(x) ==
    IF IsStr(x) /\ In(Delimiter, x) THEN StrSplit(x, Delimiter)[2] ELSE <<>>

\* One row of Series.str.split(' - ', n=1, expand=True) in a frame that has two
\* columns: a missing value gives two missing values, a str without the
\* delimiter gives the str and None.
expand_row_focused(x) ==
    IF x = NaN THEN [artist |-> NaN, title |-> NaN]
    ELSE LET parts == StrSplitOnce(x, Delimiter)
         IN  [artist |-> parts[1],
              title  |-> IF Len(parts) = 2 THEN parts[2] ELSE None]

\* The split step of script sc on a whole column: the new columns, one record
\* per row, or the exception the step raises.
split_step(sc, column) ==
    CASE sc = "grammy_spotify" ->
            IF \E k \in 1..Len(column) : main_artist_grammy_spotify(column[k]) = TypeError
            THEN Raised("TypeError")
            ELSE Done([k \in 1..Len(column) |->
                          [artist |-> main_artist_grammy_spotify(column[k])]])
      [] sc = "cross" ->
            Done([k \in 1..Len(column) |->
                     [artist |-> artist_cross(column[k]), title |-> song_cross(column[k])]])
      [] sc = "focused" ->
            \* expand=True yields as many columns as the longest split; with no
            \* delimiter in any row that is one column, and assigning it to the
            \* two keys ['artist', 'song'] raises ValueError
            IF \A k \in 1..Len(column) : ~(IsStr(column[k]) /\ In(Delimiter, column[k]))
            THEN IF column # <<>> /\ \A k \in 1..Len(column) : column[k] = NaN
                 THEN Raised("AttributeError")   \* .str on a column without a str
                 ELSE Raised("ValueError")
            ELSE Done([k \in 1..Len(column) |-> expand_row_focused(column[k])])

(***************************************************************************)
(* SpecSplit: the split step on a chart whose first row's 'Artist and      *)
(* Title' is put together from at most MaxSplitPieces pieces, or missing.  *)
(***************************************************************************)
MaxSplitPieces == 5

SplitPieces == { <<"a">>, <<"b">>, Delimiter, <<" ">>, <<"-">>, EnDashArtifact }

\* "a - b"
PlainCredit == <<"a">> \o Delimiter \o <<"b">>

InitSplit ==
    /\ script \in Scripts
    /\ pc = "input"
    /\ npieces = 0
    /\ artist_and_title = <<>>
    /\ other_rows \in {<<>>, <<PlainCredit>>}
    /\ split_result = Done(<<>>)
    /\ artist = <<>>
    /\ result = <<>>
    /\ NoTables
    /\ NothingComputed
    /\ FilesRead

\* one more piece of the field
AppendCredit(p) ==
    /\ pc = "input"
    /\ artist_and_title # NaN
    /\ npieces < MaxSplitPieces
    /\ artist_and_title' = artist_and_title \o p
    /\ npieces' = npieces + 1
    /\ UNCHANGED <<script, pc, other_rows, split_result, cleanVars, tableVars, pipeVars, envVars, runVars>>

\* the field is missing in the data
MissingCredit ==
    /\ pc = "input"
    /\ npieces = 0
    /\ artist_and_title # NaN
    /\ artist_and_title' = NaN
    /\ UNCHANGED <<script, pc, npieces, other_rows, split_result, cleanVars, tableVars, pipeVars, envVars, runVars>>

\* the statement that splits the 'Artist and Title' column
SplitStep ==
    /\ pc = "input"
    /\ split_result' = split_step(script, <<artist_and_title>> \o other_rows)
    /\ pc' = "split"
    /\ UNCHANGED <<script, npieces, splitVars, cleanVars, tableVars, pipeVars, envVars, runVars>>

NextSplit ==
    \/ \E p \in SplitPieces : AppendCredit(p)
    \/ MissingCredit
    \/ SplitStep

SpecSplit == InitSplit /\ [][NextSplit]_vars

(***************************************************************************)
(* Claims checked under SpecSplit                                          *)
(***************************************************************************)
\* the text of s before / after the first " - "
BeforeFirst(s) == SubSeq(s, 1, Min({i \in 1..Len(s) : HasAt(s, i, Delimiter)}) - 1)
AfterFirst(s) ==
    SubSeq(s, Min({i \in 1..Len(s) : HasAt(s, i, Delimiter)}) + Len(Delimiter), Len(s))

\* C7: for a string with " - " the artist portion is the text before the first
\* " - " and the title portion all the text after it; for a string without,
\* the artist portion is the string and the title portion is empty.
C7_SplitOnFirstDelimiter ==
    (pc = "split" /\ artist_and_title # NaN) =>
        /\ split_result.raised = "no"
        /\ LET s == artist_and_title
               r == split_result.rows[1]
           IN  IF In(Delimiter, s)
               THEN /\ r.artist = BeforeFirst(s)
                    /\ script # "grammy_spotify" => r.title = AfterFirst(s)
               ELSE /\ r.artist = s
                    /\ script # "grammy_spotify" => r.title = <<>>

\* C8: for every value of the field, a missing one and one without " - "
\* included, the split step of each script raises nothing and yields strings.
C8_SplitTotal ==
    pc = "split" =>
        /\ split_result.raised = "no"
        /\ \A k \in 1..Len(split_result.rows) :
              /\ IsStr(split_result.rows[k].artist)
              /\ script # "grammy_spotify" => IsStr(split_result.rows[k].title)

(***************************************************************************)
(* Tables, partitions, sorting and the quantile                            *)
(***************************************************************************)
\* the row indexes 1..n of a table of n rows, in order
RowIndex(n) == [k \in 1..n |-> k]

\* frame[mask]: the indexes of the rows whose mask entry is true, in order
RowsWhere(mask) == SelectSeq(RowIndex(Len(mask)), LAMBDA k : mask[k])

\* frame[~mask]
RowsWhereNot(mask) == SelectSeq(RowIndex(Len(mask)), LAMBDA k : ~mask[k])

\* the values of a column as a set (set(column), column.unique())
ValuesOf(column) == {column[k] : k \in 1..Len(column)}

Streams(k) == spotify_songs[k].Streams

\* Row k put into rows, which is ordered by Streams from high to low.  Among
\* rows of equal Streams it goes last when late, first otherwise.
InsertDescending(rows, k, late) ==
    LET before == {p \in 1..Len(rows) :
                     \/ Streams(rows[p]) > Streams(k)
                     \/ (late /\ Streams(rows[p]) = Streams(k))}
        n == Cardinality(before)
    IN  SubSeq(rows, 1, n) \o <<k>> \o SubSeq(rows, n + 1, Len(rows))

\* sort_values('Streams', ascending=False) of the rows: the order of rows of
\* equal Streams is not fixed by the default sort, late selects one of them
RECURSIVE SortDescending(_, _)
SortDescending(rows, late) ==
    IF rows = <<>> THEN <<>>
    ELSE InsertDescending(SortDescending(SubSeq(rows, 1, Len(rows) - 1), late),
                          rows[Len(rows)], late)

\* the first n rows: head(n)
FirstRows(rows, n) == SubSeq(rows, 1, IF Len(rows) < n THEN Len(rows) ELSE n)

\* a value put into a sequence of values ordered from low to high
InsertAscending(vals, x) ==
    LET n == Cardinality({p \in 1..Len(vals) : vals[p] <= x})
    IN  SubSeq(vals, 1, n) \o <<x>> \o SubSeq(vals, n + 1, Len(vals))

RECURSIVE SortAscending(_)
SortAscending(vals) ==
    IF vals = <<>> THEN <<>>
    ELSE InsertAscending(SortAscending(SubSeq(vals, 1, Len(vals) - 1)), vals[Len(vals)])

(***************************************************************************)
(* Ten times Series.quantile(0.9) of a non-empty sequence of values, with  *)
(* the default linear interpolation: the value at position 0.9 * (n - 1)   *)
(* of the sorted values, counted from 0.  streams_millions is Streams      *)
(* divided by a constant, which changes no comparison; the rounding of     *)
(* floating point is left out.                                             *)
(***************************************************************************)
Quantile90Times10(vals) ==
    LET v == SortAscending(vals)
        h == 9 * (Len(v) - 1)
        k == h \div 10
        r == h % 10
    IN  IF r = 0 THEN 10 * v[k + 1]
        ELSE (10 - r) * v[k + 1] + r * v[k + 2]

\* the query with >= in place of >
overlooked_rows_at_or_above(non_grammy, thr, late) ==
    SortDescending(SelectSeq(non_grammy, LAMBDA k : 10 * Streams(k) >= thr), late)

\* non_grammy_artists[non_grammy_artists['streams_millions'] > threshold]
\*     .sort_values('streams_millions', ascending=False)
overlooked_rows(non_grammy, thr, late) ==
    SortDescending(SelectSeq(non_grammy, LAMBDA k : 10 * Streams(k) > thr), late)

\* spotify_songs[spotify_songs['clean_artist'].isin(winners)]
spotify_winners_rows(keys, w) == RowsWhere([k \in 1..Len(keys) |-> keys[k] \in w])

\* the unmatched partition with the rows of empty key left out
non_grammy_artists_rows_nonempty(keys, w) ==
    RowsWhere([k \in 1..Len(keys) |-> keys[k] \notin w /\ keys[k] # <<>>])

\* spotify_songs[~spotify_songs['clean_artist'].isin(winners)]
non_grammy_artists_rows(keys, w) == RowsWhereNot([k \in 1..Len(keys) |-> keys[k] \in w])

\* the column 'Artist and Title'
ArtistAndTitle == [k \in 1..Len(spotify_songs) |-> spotify_songs[k].at]

\* grammy[grammy['Winner'] == True]
WinnerRows(table) == SelectSeq(table, LAMBDA row : row.Winner)

(***************************************************************************)
(* grammy_spotify_analysis.py: main after load_datasets                    *)
(***************************************************************************)
\* analyze_grammy_winners
analyze_grammy_winners ==
    /\ script = "grammy_spotify"
    /\ pc = "loaded"
    /\ grammy_winners' = WinnerRows(grammy)
    /\ pc' = "grammy_analyzed"
    /\ started' = Append(started, "analyze_grammy_winners")
    /\ log' = Append(log, "Analyzing Grammy winners...")
    /\ UNCHANGED <<envVars, available, exit_status, works, script, npieces, split_result, cleanVars, splitVars, tableVars,
                   clean_nominee, clean_artist, winners, is_winner, spotify_winners,
                   non_grammy_artists, threshold, overlooked, top10, raised>>

\* analyze_spotify_data: adds 'Main Artist'; an exception goes to main's
\* except clause, which logs it and returns 1
analyze_spotify_data ==
    /\ script = "grammy_spotify"
    /\ pc = "grammy_analyzed"
    /\ split_result' = split_step(script, ArtistAndTitle)
    /\ raised' = split_result'.raised
    /\ pc' = IF split_result'.raised = "no" THEN "spotify_analyzed" ELSE "raised"
    /\ started' = Append(started, "analyze_spotify_data")
    /\ log' = Append(log, "Analyzing Spotify data...")
    /\ UNCHANGED <<envVars, available, exit_status, works, script, npieces, cleanVars, splitVars, tableVars,
                   grammy_winners, clean_nominee, clean_artist, winners, is_winner,
                   spotify_winners, non_grammy_artists, threshold, overlooked, top10>>

\* cross_analysis: 'Clean Nominee', 'Clean Artist', grammy_artists,
\* 'Is_Grammy_Winner', the two groups and top_grammy_streamed
cross_analysis(late) ==
    /\ script = "grammy_spotify"
    /\ pc = "spotify_analyzed"
    /\ clean_nominee' = [k \in 1..Len(grammy_winners) |->
                            clean_artist_name_grammy_spotify(grammy_winners[k].Nominee)]
    /\ clean_artist' = [k \in 1..Len(spotify_songs) |->
                            clean_artist_name_grammy_spotify(split_result.rows[k].artist)]
    /\ winners' = {Lower(c) : c \in ValuesOf(clean_nominee')}
    /\ is_winner' = [k \in 1..Len(spotify_songs) |-> Lower(clean_artist'[k]) \in winners']
    /\ spotify_winners' = RowsWhere(is_winner')
    /\ non_grammy_artists' = RowsWhereNot(is_winner')
    /\ top10' = FirstRows(SortDescending(spotify_winners', late), TopCount)
    /\ pc' = "analyzed"
    /\ started' = Append(started, "cross_analysis")
    \* print(top_grammy_streamed[...]) of a frame without rows
    /\ log' = log \o <<"Performing cross-dataset analysis...">>
                  \o (IF top10' = <<>> THEN <<"Empty DataFrame">> ELSE <<>>)
    /\ UNCHANGED <<envVars, available, exit_status, works, script, npieces, split_result, cleanVars, splitVars, tableVars,
                   grammy_winners, threshold, overlooked, raised>>

(***************************************************************************)
(* cross_analysis.py: main after the read_csv calls                        *)
(***************************************************************************)
\* load_and_preprocess_data, after the files are read
load_and_preprocess_data_cross ==
    /\ script = "cross"
    /\ pc = "loaded"
    /\ clean_nominee' = [k \in 1..Len(grammy) |-> clean_artist_name_cross(grammy[k].Nominee)]
    /\ split_result' = split_step(script, ArtistAndTitle)
    /\ clean_artist' = [k \in 1..Len(spotify_songs) |->
                           IF IsStr(spotify_songs[k].at)
                           THEN clean_artist_name_cross(split_result'.rows[k].artist)
                           ELSE <<>>]
    /\ pc' = "preprocessed"
    /\ UNCHANGED <<log, started>>
    /\ UNCHANGED <<envVars, available, exit_status, works, script, npieces, cleanVars, splitVars, tableVars,
                   grammy_winners, winners, is_winner, spotify_winners,
                   non_grammy_artists, threshold, overlooked, top10, raised>>

\* grammy[grammy['Winner'] == True]['clean_nominee'].unique()
WinnerKeys == {clean_nominee[k] : k \in {j \in 1..Len(grammy) : grammy[j].Winner}}

\* analyze_grammy_vs_streaming
analyze_grammy_vs_streaming(late) ==
    /\ script = "cross"
    /\ pc = "preprocessed"
    /\ winners' = WinnerKeys
    /\ is_winner' = [k \in 1..Len(clean_artist) |-> clean_artist[k] \in winners']
    /\ spotify_winners' = spotify_winners_rows(clean_artist, winners')
    /\ non_grammy_artists' = non_grammy_artists_rows(clean_artist, winners')
    /\ IF spotify_winners' # <<>> /\ non_grammy_artists' # <<>>
       THEN /\ threshold' = Quantile90Times10([p \in 1..Len(spotify_winners') |->
                                                   Streams(spotify_winners'[p])])
            /\ overlooked' = overlooked_rows(non_grammy_artists', threshold', late)
       ELSE UNCHANGED <<threshold, overlooked>>
    /\ pc' = "analyzed"
    /\ started' = Append(started, "analyze_grammy_vs_streaming")
    \* print(f"Grammy winners in Spotify top streamed: {len(...)}")
    /\ log' = Append(log, IF spotify_winners' = <<>>
                          THEN "Grammy winners in Spotify top streamed: 0"
                          ELSE "Grammy winners in Spotify top streamed: n")
    /\ UNCHANGED <<envVars, available, exit_status, works, script, npieces, split_result, cleanVars, splitVars, tableVars,
                   grammy_winners, clean_nominee, clean_artist, top10, raised>>

(***************************************************************************)
(* focused_analysis.py: main after the read_csv calls                      *)
(***************************************************************************)
\* load_and_preprocess_data, after the files are read; an exception ends the
\* script, main has no handler
load_and_preprocess_data_focused ==
    /\ script = "focused"
    /\ pc = "loaded"
    /\ clean_nominee' = [k \in 1..Len(grammy) |-> clean_artist_name_focused(grammy[k].Nominee)]
    /\ split_result' = split_step(script, ArtistAndTitle)
    /\ raised' = split_result'.raised
    /\ IF split_result'.raised = "no"
       THEN /\ clean_artist' = [k \in 1..Len(spotify_songs) |->
                                   clean_artist_name_focused(split_result'.rows[k].artist)]
            /\ pc' = "preprocessed"
       ELSE /\ clean_artist' = clean_artist
            /\ pc' = "raised"
    /\ UNCHANGED <<log, started>>
    /\ UNCHANGED <<envVars, available, exit_status, works, script, npieces, cleanVars, splitVars, tableVars,
                   grammy_winners, winners, is_winner, spotify_winners,
                   non_grammy_artists, threshold, overlooked, top10>>

\* analyze_grammy_impact: avg_streams has one entry per value of has_grammy
\* that occurs, and avg_streams[True], avg_streams[False] raise KeyError for
\* one that does not
analyze_grammy_impact ==
    /\ script = "focused"
    /\ pc = "preprocessed"
    /\ winners' = WinnerKeys
    /\ is_winner' = [k \in 1..Len(clean_artist) |-> clean_artist[k] \in winners']
    /\ spotify_winners' = RowsWhere(is_winner')
    /\ non_grammy_artists' = RowsWhereNot(is_winner')
    /\ IF spotify_winners' = <<>> \/ non_grammy_artists' = <<>>
       THEN /\ raised' = "KeyError"
            /\ pc' = "raised"
            /\ top10' = top10
       ELSE /\ raised' = raised
            /\ pc' = "analyzed"
            \* nlargest(10, 'streams_millions'): rows of equal value keep their order
            /\ top10' = FirstRows(SortDescending(non_grammy_artists', TRUE), TopCount)
    /\ started' = Append(started, "analyze_grammy_impact")
    /\ log' = Append(log, "Average streams (millions):")
    /\ UNCHANGED <<envVars, available, exit_status, works, script, npieces, split_result, cleanVars, splitVars, tableVars,
                   grammy_winners, clean_nominee, clean_artist, threshold, overlooked>>

(***************************************************************************)
(* grammy_spotify_analysis.analyze_producers                               *)
(***************************************************************************)
NonClassical == "Producer Of The Year, Non-Classical"

\* two values of the 'Year' column
FirstYear == 2019
SecondYear == 2020

\* The three characters analyze_producers splits the 'Work' field on: a
\* bullet read as Latin-1 (a-circumflex, U+0080, cent sign), each written
\* here by its Latin-1 code.
Bullet == <<"E2", "80", "A2">>

Last(seq) == seq[Len(seq)]

\* [w.strip() for w in row['Work'].split(bullet) if w.strip()]
work_entries(w) ==
    LET parts == StrSplit(w, Bullet)
    IN  SelectSeq([k \in 1..Len(parts) |-> Strip(parts[k])], LAMBDA e : e # <<>>)

\* the test with ')' looked for in the whole entry
has_artist_anywhere(work) ==
    In(<<"(">>, work) /\ In(<<")">>, work)

\* '(' in work and ')' in work.split('(')[-1]
has_artist(work) ==
    In(<<"(">>, work) /\ In(<<")">>, Last(StrSplit(work, <<"(">>)))

\* the dict appended to works for an entry that passed the test
work_record(row, work) ==
    [ Producer |-> row.Nominee,
      Work     |-> Strip(StrSplit(work, <<"(">>)[1]),
      Artist   |-> Strip(StrSplit(Last(StrSplit(work, <<"(">>)), <<")">>)[1]),
      Year     |-> row.Year,
      Winner   |-> row.Winner ]

\* the inner loop: the records of one row, in the order of its entries
row_works(row) ==
    LET entries == work_entries(row.Work)
        kept == SelectSeq(entries, has_artist)
    IN  [k \in 1..Len(kept) |-> work_record(row, kept[k])]

\* the outer loop; row['Work'].split on a missing value raises AttributeError
RECURSIVE extract_works(_)
extract_works(prod) ==
    IF prod = <<>> THEN Done(<<>>)
    ELSE IF Head(prod).Work = NaN THEN Raised("AttributeError")
    ELSE LET rest == extract_works(Tail(prod))
         IN  IF rest.raised # "no" THEN rest
             ELSE Done(row_works(Head(prod)) \o rest.rows)

\* ' '.join(spotify_data['Artist and Title'].str.lower())
RECURSIVE JoinLower(_)
JoinLower(column) ==
    IF column = <<>> THEN <<>>
    ELSE IF Len(column) = 1 THEN Lower(column[1])
    ELSE Lower(column[1]) \o <<" ">> \o JoinLower(Tail(column))

\* What assigning the outcome of apply() on a frame without rows and columns
\* to a column, and the groupby('Producer') after it, raise: ValueError where
\* the assignment is refused, KeyError where it is not.
EmptyFrameErrors == {"ValueError", "KeyError"}

\* analyze_producers: the extraction loop, works_df, 'In_Spotify_Top' and the
\* success table; an exception goes to main's except clause
analyze_producers(exc) ==
    /\ script = "grammy_spotify"
    /\ pc = "analyzed"
    /\ started' = Append(started, "analyze_producers")
    /\ log' = Append(log, "Analyzing producers...")
    /\ LET prod == SelectSeq(producers, LAMBDA row : row.Award = NonClassical)
           found == extract_works(prod)
           chart == JoinLower(ArtistAndTitle)
       IN  works' = IF found.raised # "no" THEN found
                    ELSE IF found.rows = <<>> THEN Raised(exc)
                    ELSE Done([k \in 1..Len(found.rows) |->
                                 [ rec |-> found.rows[k],
                                   In_Spotify_Top |-> In(Lower(found.rows[k].Work), chart) ]])
    /\ raised' = works'.raised
    /\ pc' = IF works'.raised = "no" THEN "producers_analyzed" ELSE "raised"
    /\ UNCHANGED <<envVars, available, exit_status, script, npieces, split_result,
                   cleanVars, splitVars, tableVars, grammy_winners, clean_nominee,
                   clean_artist, winners, is_winner, spotify_winners,
                   non_grammy_artists, threshold, overlooked, top10>>

(***************************************************************************)
(* Reading the source files                                                *)
(***************************************************************************)
\* the order in which every script reads the files
FileOrder == <<"grammy", "spotify", "artists", "producers">>

FileLabel == [grammy |-> "Grammy", spotify |-> "Spotify",
              artists |-> "Artists", producers |-> "Producers"]

\* os.path.exists(<the file's path>)
Exists(f) == datasets_dir /\ files[f] # "absent"

\* pd.read_csv returns a table
Readable(f) == Exists(f) /\ files[f] # "unreadable"

\* what pd.read_csv raises otherwise; ParserError stands for every exception
\* that reading an existing file can raise
read_csv_error(f) == IF Exists(f) THEN "ParserError" ELSE "FileNotFoundError"

\* the first of the files fs, in the order read, that read_csv fails on
RECURSIVE FirstFailure(_)
FirstFailure(fs) ==
    IF fs = <<>> THEN "none"
    ELSE IF ~Readable(Head(fs)) THEN Head(fs)
    ELSE FirstFailure(Tail(fs))

\* grammy_spotify_analysis.load_datasets: four read_csv calls in one try; the
\* except clause logs and raises again, to main's except clause
load_datasets_grammy_spotify ==
    /\ script = "grammy_spotify"
    /\ pc = "start"
    /\ started' = Append(started, "load_datasets")
    /\ LET failed == FirstFailure(FileOrder)
       IN  IF failed = "none"
           THEN /\ log' = log \o <<"Starting analysis...", "Loading datasets...",
                                   "All datasets loaded successfully!">>
                /\ pc' = "loaded"
                /\ raised' = raised
           ELSE /\ log' = log \o <<"Starting analysis...", "Loading datasets...",
                                   "Error loading datasets">>
                /\ pc' = "raised"
                /\ raised' = read_csv_error(failed)
    /\ UNCHANGED <<envVars, available, exit_status, works, script, npieces, split_result,
                   cleanVars, splitVars, tableVars, grammy_winners, clean_nominee,
                   clean_artist, winners, is_winner, spotify_winners,
                   non_grammy_artists, threshold, overlooked, top10>>

\* the files a script's load_and_preprocess_data reads
FilesOf(sc) == IF sc = "focused" THEN SubSeq(FileOrder, 1, 2) ELSE FileOrder

\* cross_analysis.py and focused_analysis.py, load_and_preprocess_data up to
\* its last read_csv call; nothing catches what read_csv raises
read_csv_files ==
    /\ script \in {"cross", "focused"}
    /\ pc = "start"
    /\ started' = Append(started, "load_and_preprocess_data")
    /\ log' = Append(log, "Loading and preprocessing data...")
    /\ LET failed == FirstFailure(FilesOf(script))
       IN  IF failed = "none"
           THEN pc' = "loaded" /\ raised' = raised
           ELSE pc' = "raised" /\ raised' = read_csv_error(failed)
    /\ UNCHANGED <<envVars, available, exit_status, works, script, npieces, split_result,
                   cleanVars, splitVars, tableVars, grammy_winners, clean_nominee,
                   clean_artist, winners, is_winner, spotify_winners,
                   non_grammy_artists, threshold, overlooked, top10>>

(***************************************************************************)
(* simple_analysis.py                                                      *)
(***************************************************************************)
\* load_datasets from the first "Try to load" on: fs are the files still to
\* load, got the ones loaded so far.  An exception of read_csv goes to the
\* except clause, which logs it and returns four None.
RECURSIVE load_each(_, _, _)
load_each(fs, got, msgs) ==
    IF fs = <<>> THEN [tables |-> got, log |-> msgs]
    ELSE LET f == Head(fs)
         IN  IF ~Exists(f)
             THEN load_each(Tail(fs), got,
                            Append(msgs, FileLabel[f] \o " data file not found"))
             ELSE IF ~Readable(f)
             THEN [tables |-> {},
                   log |-> msgs \o <<"Loading " \o FileLabel[f] \o " data",
                                     "Error in load_datasets">>]
             ELSE load_each(Tail(fs), got \cup {f},
                            msgs \o <<"Loading " \o FileLabel[f] \o " data",
                                      FileLabel[f] \o " data loaded">>)

\* the load with a file's absence taken for a failure of the whole load
load_datasets_all_or_nothing ==
    IF \A f \in AllFiles : Readable(f)
    THEN load_each(FileOrder, {}, <<"Files in datasets directory:">>)
    ELSE [tables |-> {}, log |-> <<"Error in load_datasets">>]

\* what load_datasets returns and logs
load_datasets_result ==
    IF ~datasets_dir
    THEN [tables |-> {}, log |-> <<"Datasets directory not found">>]
    ELSE load_each(FileOrder, {}, <<"Files in datasets directory:">>)

\* main, lines 80 to 83: the call of load_datasets
load_datasets_simple ==
    /\ script = "simple"
    /\ pc = "start"
    /\ started' = Append(started, "load_datasets")
    /\ available' = [f \in AllFiles |-> f \in load_datasets_result.tables]
    /\ log' = log \o <<"Starting analysis...">> \o load_datasets_result.log
    /\ pc' = "loaded"
    /\ UNCHANGED <<envVars, exit_status, works, script, npieces, split_result,
                   cleanVars, splitVars, tableVars, pipeVars>>

\* main, lines 86 to 112: one report per table that is not None, up to the
\* first that raises; artists.sort_values('Streams') raises KeyError on a
\* table without that column
RECURSIVE report_each(_, _)
report_each(fs, msgs) ==
    IF fs = <<>> THEN [raised |-> "no", log |-> msgs]
    ELSE LET f == Head(fs)
             header == "=== Basic " \o FileLabel[f] \o " Data Analysis ==="
         IN  IF ~available[f] THEN report_each(Tail(fs), msgs)
             ELSE IF f = "artists" /\ files[f] = "no_streams"
             THEN [raised |-> "KeyError", log |-> Append(msgs, header)]
             ELSE report_each(Tail(fs), Append(msgs, header))

\* main, lines 86 to 114
report_tables ==
    /\ script = "simple"
    /\ pc = "loaded"
    /\ started' = Append(started, "report_tables")
    /\ LET reports == report_each(FileOrder, <<>>)
       IN  /\ raised' = reports.raised
           /\ IF reports.raised = "no"
              THEN /\ log' = log \o reports.log \o <<"Analysis complete!">>
                   /\ pc' = "reported"
              ELSE /\ log' = log \o reports.log
                   /\ pc' = "raised"
    /\ UNCHANGED <<envVars, available, exit_status, works, script, npieces, split_result,
                   cleanVars, splitVars, tableVars, grammy_winners, clean_nominee,
                   clean_artist, winners, is_winner, spotify_winners,
                   non_grammy_artists, threshold, overlooked, top10>>

(***************************************************************************)
(* cross_analysis.py and focused_analysis.py: the later steps of main.     *)
(* What they draw and the tables they print are not part of the state.     *)
(***************************************************************************)
\* analyze_producer_impact called in the place of analyze_grammy_vs_streaming
analyze_producer_impact_first ==
    /\ script = "cross"
    /\ pc = "preprocessed"
    /\ started' = Append(started, "analyze_producer_impact")
    /\ log' = log
    /\ pc' = "producer_analyzed"
    /\ UNCHANGED <<envVars, available, exit_status, works, script, npieces, split_result,
                   cleanVars, splitVars, tableVars, pipeVars>>

\* cross_analysis.analyze_producer_impact
analyze_producer_impact ==
    /\ script = "cross"
    /\ pc = "analyzed"
    /\ started' = Append(started, "analyze_producer_impact")
    /\ log' = log \o (IF \E k \in 1..Len(producers) : producers[k].Winner
                      THEN <<"Producer of the Year winners:">> ELSE <<>>)
    /\ pc' = "producer_analyzed"
    /\ UNCHANGED <<envVars, available, exit_status, works, script, npieces, split_result,
                   cleanVars, splitVars, tableVars, pipeVars>>

\* analyze_genre_trends of cross_analysis.py and of focused_analysis.py
analyze_genre_trends ==
    /\ \/ script = "cross" /\ pc = "producer_analyzed"
       \/ script = "focused" /\ pc = "analyzed"
    /\ started' = Append(started, "analyze_genre_trends")
    /\ log' = Append(log, "Top Grammy award genres:")
    /\ pc' = "genre_analyzed"
    /\ UNCHANGED <<envVars, available, exit_status, works, script, npieces, split_result,
                   cleanVars, splitVars, tableVars, pipeVars>>

\* cross_analysis.analyze_award_impact: the winners matched again, then one
\* of two messages
analyze_award_impact ==
    /\ script = "cross"
    /\ pc = "genre_analyzed"
    /\ started' = Append(started, "analyze_award_impact")
    /\ spotify_winners' = spotify_winners_rows(clean_artist, WinnerKeys)
    /\ log' = Append(log, IF spotify_winners' # <<>>
                          THEN "Number of Grammy winners in top streamed: n"
                          ELSE "No Grammy winners found in the top streamed songs.")
    /\ pc' = "award_analyzed"
    /\ UNCHANGED <<envVars, available, exit_status, works, script, npieces, split_result,
                   cleanVars, splitVars, tableVars, grammy_winners, clean_nominee,
                   clean_artist, winners, is_winner, non_grammy_artists, threshold,
                   overlooked, top10, raised>>

\* focused_analysis.analyze_artist_longevity
analyze_artist_longevity ==
    /\ script = "focused"
    /\ pc = "genre_analyzed"
    /\ started' = Append(started, "analyze_artist_longevity")
    /\ log' = Append(log, "Artists with Longest Grammy Recognition Spans:")
    /\ pc' = "longevity_analyzed"
    /\ UNCHANGED <<envVars, available, exit_status, works, script, npieces, split_result,
                   cleanVars, splitVars, tableVars, pipeVars>>

(***************************************************************************)
(* The end of main and of the process                                      *)
(***************************************************************************)
\* where main is after its last step
last_pc(sc) ==
    CASE sc = "grammy_spotify" -> "producers_analyzed"
      [] sc = "cross"          -> "award_analyzed"
      [] sc = "focused"        -> "longevity_analyzed"
      [] sc = "simple"         -> "reported"

\* main comes to its end: grammy_spotify_analysis.py hands main's return 0 to
\* sys.exit, the other scripts call main() and fall off the end of the module
main_return ==
    /\ pc = last_pc(script)
    /\ log' = IF script = "simple" THEN log ELSE Append(log, "Analysis complete!")
    /\ exit_status' = 0
    /\ pc' = "exited"
    /\ UNCHANGED <<envVars, available, started, works, script, npieces, split_result,
                   cleanVars, splitVars, tableVars, pipeVars>>

\* an exception has left a step of main: the except clause of
\* grammy_spotify_analysis.main logs it and returns 1 to sys.exit; the other
\* scripts have no handler and the interpreter ends with status 1
main_except ==
    /\ pc = "raised"
    /\ log' = log \o (IF script = "grammy_spotify"
                      THEN <<"An error occurred during analysis", "Traceback">>
                      ELSE <<"Traceback">>)
    /\ exit_status' = 1
    /\ pc' = "exited"
    /\ UNCHANGED <<envVars, available, started, works, script, npieces, split_result,
                   cleanVars, splitVars, tableVars, pipeVars>>

(***************************************************************************)
(* SpecMatch: the three scripts, from the tables as read to the flagged    *)
(* chart, on every award table of at most MaxAwards rows and every chart   *)
(* of at most MaxChart rows over the pools below.                          *)
(***************************************************************************)
MaxAwards == 2
MaxChart == 2

\* every table of at most max rows drawn from rows
Tables(rows, max) == UNION {[1..n -> rows] : n \in 0..max}

\* "<name> - s"
CreditOf(name) == name \o Delimiter \o <<"s">>

\* nominees: a name, one made of removable content only, a missing one
NomineePool == { <<"A","b">>, <<"(","L",")">>, NaN }

\* chart credits: the name, the name in another letter case, a substring of
\* the name, removable content only, a missing field
CreditPool == { CreditOf(<<"A","b">>), CreditOf(<<"a","b">>), CreditOf(<<"A">>),
                CreditOf(<<"(","L",")">>), NaN }

MatchStreams == {10}

InitIdle ==
    /\ FilesRead
    /\ npieces = 0
    /\ artist = <<>>
    /\ result = <<>>
    /\ artist_and_title = <<>>
    /\ other_rows = <<>>
    /\ split_result = Done(<<>>)
    /\ NothingComputed

InitMatch ==
    /\ script \in Scripts
    /\ pc = "loaded"
    /\ grammy \in Tables([Nominee : NomineePool, Winner : BOOLEAN], MaxAwards)
    /\ spotify_songs \in Tables([at : CreditPool, Streams : MatchStreams], MaxChart)
    /\ producers = <<>>
    /\ InitIdle

NextMatch ==
    \/ analyze_grammy_winners
    \/ analyze_spotify_data
    \/ \E late \in BOOLEAN : cross_analysis(late)
    \/ load_and_preprocess_data_cross
    \/ \E late \in BOOLEAN : analyze_grammy_vs_streaming(late)
    \/ load_and_preprocess_data_focused
    \/ analyze_grammy_impact

SpecMatch == InitMatch /\ [][NextMatch]_vars

(***************************************************************************)
(* SpecSnub: cross_analysis.py on one winning nominee and every chart of   *)
(* at most MaxSnubRows rows drawn from SnubRows: songs of the winner and   *)
(* songs of someone else, below, at, between and above the winner's.       *)
(***************************************************************************)
MaxSnubRows == 5

SnubRows ==
    { [at |-> CreditOf(<<"A","b">>), Streams |-> 5],
      [at |-> CreditOf(<<"A","b">>), Streams |-> 10],
      [at |-> CreditOf(<<"A","b">>), Streams |-> 20],
      [at |-> CreditOf(<<"A">>), Streams |-> 1],
      [at |-> CreditOf(<<"A">>), Streams |-> 10],
      [at |-> CreditOf(<<"A">>), Streams |-> 100] }

InitSnub ==
    /\ script = "cross"
    /\ pc = "loaded"
    /\ grammy = << [Nominee |-> <<"A","b">>, Winner |-> TRUE] >>
    /\ spotify_songs \in Tables(SnubRows, MaxSnubRows)
    /\ producers = <<>>
    /\ InitIdle

NextSnub ==
    \/ load_and_preprocess_data_cross
    \/ \E late \in BOOLEAN : analyze_grammy_vs_streaming(late)

SpecSnub == InitSnub /\ [][NextSnub]_vars

(***************************************************************************)
(* SpecMain: each of the four scripts from its start to the end of the     *)
(* process, on every combination of present, absent and unreadable source  *)
(* files and, where all are read, on every chart of at most MaxMainChart   *)
(* rows and every award and producer table of at most MaxMainRows rows     *)
(* over the pools below.                                                   *)
(***************************************************************************)
MaxMainRows == 1
MaxMainChart == 2

MainScripts == Scripts \cup {"simple"}

FileStates == {"absent", "ok", "unreadable", "no_streams"}

MainAwards == [Nominee : {<<"A","b">>}, Winner : BOOLEAN]

MainChart == [at : {CreditOf(<<"A","b">>), CreditOf(<<"A">>), NaN}, Streams : MatchStreams]

\* producer rows: a work with its artist, a work without one, a missing
\* 'Work', a row of another award
MainProducers ==
    { [Award |-> NonClassical, Nominee |-> "P1", Work |-> <<"s"," ","(","A","b",")">>,
       Year |-> FirstYear, Winner |-> TRUE],
      [Award |-> NonClassical, Nominee |-> "P1", Work |-> <<"s">>,
       Year |-> FirstYear, Winner |-> FALSE],
      [Award |-> NonClassical, Nominee |-> "P1", Work |-> NaN,
       Year |-> FirstYear, Winner |-> FALSE],
      [Award |-> "Album Of The Year", Nominee |-> "P2", Work |-> <<"s"," ","(","A","b",")">>,
       Year |-> SecondYear, Winner |-> TRUE] }

InitMain ==
    /\ script \in MainScripts
    /\ pc = "start"
    /\ datasets_dir \in BOOLEAN
    /\ files \in [AllFiles -> FileStates]
    /\ ~datasets_dir => \A f \in AllFiles : files[f] = "absent"
    \* a roster without its 'Streams' column: followed in simple_analysis.py only
    /\ \A f \in AllFiles : files[f] = "no_streams" => (f = "artists" /\ script = "simple")
    \* the tables are what the files hold, for the scripts that look into them
    /\ IF script # "simple" /\ datasets_dir /\ \A f \in AllFiles : files[f] = "ok"
       THEN /\ grammy \in Tables(MainAwards, MaxMainRows)
            /\ spotify_songs \in Tables(MainChart, MaxMainChart)
            /\ producers \in IF script = "focused" THEN {<<>>}
                             ELSE Tables(MainProducers, MaxMainRows)
       ELSE NoTables
    /\ available = [f \in AllFiles |-> FALSE]
    /\ log = <<>>
    /\ started = <<>>
    /\ exit_status = -1
    /\ works = Done(<<>>)
    /\ npieces = 0
    /\ artist = <<>>
    /\ result = <<>>
    /\ artist_and_title = <<>>
    /\ other_rows = <<>>
    /\ split_result = Done(<<>>)
    /\ NothingComputed

NextMain ==
    \/ load_datasets_grammy_spotify
    \/ analyze_grammy_winners
    \/ analyze_spotify_data
    \/ \E late \in BOOLEAN : cross_analysis(late)
    \/ \E exc \in EmptyFrameErrors : analyze_producers(exc)
    \/ read_csv_files
    \/ load_and_preprocess_data_cross
    \/ \E late \in BOOLEAN : analyze_grammy_vs_streaming(late)
    \/ analyze_producer_impact
    \/ analyze_genre_trends
    \/ analyze_award_impact
    \/ load_and_preprocess_data_focused
    \/ analyze_grammy_impact
    \/ analyze_artist_longevity
    \/ load_datasets_simple
    \/ report_tables
    \/ main_return
    \/ main_except

SpecMain == InitMain /\ [][NextMain]_vars

(***************************************************************************)
(* Claims checked under SpecMain                                           *)
(***************************************************************************)
Ran(step) == \E k \in 1..Len(started) : started[k] = step

Logged(line) == \E k \in 1..Len(log) : log[k] = line

\* a dataset failed to load: the directory or a file is missing, or a read
\* raised
LoadFailed == ~datasets_dir \/ \E f \in AllFiles : files[f] \in {"absent", "unreadable"}

ErrorLines == {"Error loading datasets", "An error occurred during analysis",
               "Datasets directory not found", "Error in load_datasets"}
               \cup {FileLabel[f] \o " data file not found" : f \in AllFiles}

\* C11: in grammy_spotify_analysis.py and simple_analysis.py a run in which a
\* dataset failed to load logs the failure and ends with a non-zero exit
\* status, never with 0.
C11_LoadFailureExitsNonZero ==
    (script \in {"grammy_spotify", "simple"} /\ pc = "exited" /\ LoadFailed) =>
        /\ \E line \in ErrorLines : Logged(line)
        /\ exit_status # 0

EmptyResultLines == {"No Grammy winners found in the top streamed songs.",
                     "Grammy winners in Spotify top streamed: 0",
                     "Empty DataFrame"}

\* C13: an analysis that finds no chart row of a winner, and analyze_producers
\* finding no work to extract, end without raising and tell of the empty
\* result in a message.
C13_EmptyResultIsNotAnError ==
    /\ ( /\ started # <<>>
         /\ Last(started) \in {"analyze_grammy_vs_streaming", "analyze_award_impact",
                               "analyze_grammy_impact", "cross_analysis"}
         /\ spotify_winners = <<>> ) =>
            /\ raised = "no"
            /\ \E line \in EmptyResultLines : Logged(line)
    /\ ( /\ Ran("analyze_producers")
         /\ works.rows = <<>>
         /\ works.raised # "AttributeError" ) =>
            raised = "no"

\* the steps of main that the claim lists
MainSteps(sc) ==
    IF sc = "grammy_spotify"
    THEN <<"load_datasets", "analyze_grammy_winners", "analyze_spotify_data",
           "cross_analysis", "analyze_producers">>
    ELSE <<"load_and_preprocess_data", "analyze_grammy_vs_streaming",
           "analyze_producer_impact", "analyze_genre_trends", "analyze_award_impact">>

\* 'Main Artist' is there for every chart row
MainArtistAdded ==
    split_result.raised = "no" /\ Len(split_result.rows) = Len(spotify_songs)

\* C16: in every run of grammy_spotify_analysis.py and of cross_analysis.py,
\* whatever the data, every step of main has been started exactly once and in
\* the listed order when the run ends, and cross_analysis has not started
\* before analyze_spotify_data added 'Main Artist'.
C16_FixedSequenceUnconditional ==
    script \in {"grammy_spotify", "cross"} =>
        /\ pc = "exited" => started = MainSteps(script)
        /\ Ran("cross_analysis") => MainArtistAdded

\* C16 as amended: the steps started so far are always the first ones of the
\* listed sequence, in its order and each once; all of them have been
\* started when the run ends without an exception, and at least the load
\* when an exception ended it; and cross_analysis has not started before
\* analyze_spotify_data added 'Main Artist'.
C16_FixedSequenceUntilException ==
    script \in {"grammy_spotify", "cross"} =>
        /\ Len(started) <= Len(MainSteps(script))
        /\ started = SubSeq(MainSteps(script), 1, Len(started))
        /\ (pc = "exited" /\ raised = "no") => started = MainSteps(script)
        /\ (pc = "exited" /\ raised # "no") => started # <<>>
        /\ Ran("cross_analysis") => MainArtistAdded

\* C16's case: a run of grammy_spotify_analysis.py that went through all five
\* steps and ended
C16_Witness ==
    /\ script = "grammy_spotify"
    /\ pc = "exited"
    /\ raised = "no"
    /\ exit_status = 0
    /\ started = MainSteps("grammy_spotify")
    /\ MainArtistAdded

(***************************************************************************)
(* SpecWorks: grammy_spotify_analysis.py on a producer table of two rows,  *)
(* the 'Work' field of the first put together from at most MaxWorkPieces   *)
(* pieces, the second fixed.                                               *)
(***************************************************************************)
MaxWorkPieces == 4

WorkPieces == { <<"a">>, <<"b">>, <<"(">>, <<")">>, <<" ">>, Bullet }

InitWorks ==
    /\ script = "grammy_spotify"
    /\ pc = "loaded"
    /\ grammy = <<>>
    /\ spotify_songs = << [at |-> CreditOf(<<"A","b">>), Streams |-> 10] >>
    /\ producers = << [Award |-> NonClassical, Nominee |-> "P1", Work |-> <<>>,
                       Year |-> FirstYear, Winner |-> FALSE],
                      [Award |-> NonClassical, Nominee |-> "P2",
                       Work |-> <<"s"," ","(","A","b",")">>,
                       Year |-> SecondYear, Winner |-> TRUE] >>
    /\ InitIdle

\* one more piece of the first row's 'Work' field
AppendWorkPiece(p) ==
    /\ pc = "loaded"
    /\ npieces < MaxWorkPieces
    /\ producers' = [producers EXCEPT ![1].Work = @ \o p]
    /\ npieces' = npieces + 1
    /\ UNCHANGED <<script, pc, split_result, datasets_dir, files, grammy, spotify_songs,
                   cleanVars, splitVars, pipeVars, runVars>>

NextWorks ==
    \/ \E p \in WorkPieces : AppendWorkPiece(p)
    \/ analyze_grammy_winners
    \/ analyze_spotify_data
    \/ \E late \in BOOLEAN : cross_analysis(late)
    \/ \E exc \in EmptyFrameErrors : analyze_producers(exc)

SpecWorks == InitWorks /\ [][NextWorks]_vars

(***************************************************************************)
(* Claims checked under SpecWorks                                          *)
(***************************************************************************)
\* the pieces of a 'Work' field between bullets that are not empty
PiecesBetweenBullets(w) == SelectSeq(StrSplit(w, Bullet), LAMBDA e : e # <<>>)

\* the parenthesised spans of a piece: an opening parenthesis and the first
\* closing parenthesis after it
ClosedSpans(piece) ==
    {sp \in (1..Len(piece)) \X (1..Len(piece)) :
        /\ sp[1] < sp[2]
        /\ piece[sp[1]] = "("
        /\ piece[sp[2]] = ")"
        /\ \A m \in (sp[1] + 1)..(sp[2] - 1) : piece[m] # ")"}

\* the records analyze_producers made of the first row
FirstRowRecords ==
    SelectSeq([k \in 1..Len(works.rows) |-> works.rows[k].rec],
              LAMBDA rec : rec.Producer = "P1")

\* C15: the pieces of a 'Work' field that hold a parenthesised span with its
\* closing parenthesis are the ones that yield a record, one each and in
\* order; the record's work name is the text before that parenthesis, its
\* artist the text inside it (both without surrounding whitespace), and its
\* Year and Winner are those of the row.
C15_WorkExtraction ==
    pc = "producers_analyzed" =>
        LET with_span == SelectSeq(PiecesBetweenBullets(producers[1].Work),
                                   LAMBDA piece : ClosedSpans(piece) # {})
            recs == FirstRowRecords
        IN  /\ Len(recs) = Len(with_span)
            /\ \A k \in 1..Len(recs) :
                 /\ k <= Len(with_span)
                 /\ recs[k].Year = producers[1].Year
                 /\ recs[k].Winner = producers[1].Winner
                 /\ \E sp \in ClosedSpans(with_span[k]) :
                      /\ recs[k].Work = Strip(SubSeq(with_span[k], 1, sp[1] - 1))
                      /\ recs[k].Artist = Strip(SubSeq(with_span[k], sp[1] + 1, sp[2] - 1))

\* the positions of the opening parentheses of a piece
Opens(piece) == {i \in 1..Len(piece) : piece[i] = "("}

\* the closing parentheses after the last opening one
ClosesAfterLastOpen(piece) == {j \in (Max(Opens(piece)) + 1)..Len(piece) : piece[j] = ")"}

\* C15 as amended: a piece yields a record if and only if it holds an opening
\* parenthesis and a closing one after its last opening one; the work name is
\* the text before the first opening parenthesis, the artist the text from
\* the last opening parenthesis to the first closing one after it.
C15_WorkExtractionFirstLast ==
    pc = "producers_analyzed" =>
        LET pieces == PiecesBetweenBullets(producers[1].Work)
            whole == SelectSeq([k \in 1..Len(pieces) |-> Strip(pieces[k])],
                               LAMBDA piece : /\ Opens(piece) # {}
                                              /\ ClosesAfterLastOpen(piece) # {})
            recs == FirstRowRecords
        IN  /\ Len(recs) = Len(whole)
            /\ \A k \in 1..Len(recs) :
                 /\ k <= Len(whole)
                 /\ recs[k].Year = producers[1].Year
                 /\ recs[k].Winner = producers[1].Winner
                 /\ recs[k].Work = Strip(SubSeq(whole[k], 1, Min(Opens(whole[k])) - 1))
                 /\ recs[k].Artist = Strip(SubSeq(whole[k], Max(Opens(whole[k])) + 1,
                                                  Min(ClosesAfterLastOpen(whole[k])) - 1))

\* C15's case: the piece "a(b)" has yielded the record of work a, artist b
C15_Witness ==
    /\ pc = "producers_analyzed"
    /\ producers[1].Work = <<"a", "(", "b", ")">>
    /\ Len(FirstRowRecords) = 1
    /\ FirstRowRecords[1].Work = <<"a">>
    /\ FirstRowRecords[1].Artist = <<"b">>

(***************************************************************************)
(* Claims checked under SpecMatch                                          *)
(***************************************************************************)
\* the chart rows have been flagged (the run may have raised afterwards)
Flagged == Len(is_winner) = Len(spotify_songs) /\ pc \in {"analyzed", "raised"}

\* C4: a chart row is flagged as a winner if and only if its canonical key
\* equals, ignoring letter case, the canonical key of some award record whose
\* Winner flag is true; this in every script that flags chart rows.
C4_CaseInsensitiveExactMatch ==
    Flagged =>
        \A k \in 1..Len(is_winner) :
            is_winner[k] <=>
                \E j \in 1..Len(grammy) :
                    /\ grammy[j].Winner
                    /\ Lower(clean_artist_name(script, grammy[j].Nominee))
                           = Lower(clean_artist[k])

\* C5: a chart row whose canonical key is the empty string is never placed in
\* the matched partition, and the empty key is never in the winner set.
C5_EmptyKeyNeverMatches ==
    Flagged =>
        /\ <<>> \notin winners
        /\ \A k \in 1..Len(is_winner) : clean_artist[k] = <<>> => ~is_winner[k]

\* how often row index k occurs in rows
Occurrences(rows, k) == Cardinality({p \in 1..Len(rows) : rows[p] = k})

\* C6: every chart row, one with a missing or empty key included, is in
\* exactly one of the matched and unmatched partitions, and the two together
\* hold exactly the rows of the chart, none twice.
C6_PartitionExhaustiveDisjoint ==
    pc = "analyzed" =>
        /\ \A k \in 1..Len(spotify_songs) :
               Occurrences(spotify_winners, k) + Occurrences(non_grammy_artists, k) = 1
        /\ Len(spotify_winners) + Len(non_grammy_artists) = Len(spotify_songs)

\* C6's case: analyze_grammy_vs_streaming has split a chart that has a matched
\* row and a row whose field is missing, so that its key is empty
C6_Witness ==
    /\ script = "cross"
    /\ pc = "analyzed"
    /\ spotify_winners # <<>>
    /\ \E k \in 1..Len(spotify_songs) :
          /\ spotify_songs[k].at = NaN
          /\ clean_artist[k] = <<>>
          /\ Occurrences(non_grammy_artists, k) = 1

(***************************************************************************)
(* Claims checked under SpecSnub                                           *)
(***************************************************************************)
MatchedRows == {k \in 1..Len(is_winner) : is_winner[k]}
UnmatchedRows == {k \in 1..Len(is_winner) : ~is_winner[k]}

\* the value of rank k (from 0) among the Streams of the matched rows: fewer
\* than k + 1 rows lie strictly below it and at least k + 1 at or below it
MatchedRank(k) ==
    CHOOSE x \in {Streams(m) : m \in MatchedRows} :
        /\ Cardinality({m \in MatchedRows : Streams(m) < x}) <= k
        /\ Cardinality({m \in MatchedRows : Streams(m) <= x}) > k

\* ten times the 90th percentile of the matched rows' Streams: the point
\* nine tenths of the way from the lowest rank to the highest, between the
\* two ranks around it
MatchedPercentile90Times10 ==
    LET n == Cardinality(MatchedRows)
        k == (9 * (n - 1)) \div 10
        r == (9 * (n - 1)) % 10
    IN  IF r = 0 THEN 10 * MatchedRank(k)
        ELSE (10 - r) * MatchedRank(k) + r * MatchedRank(k + 1)

\* C9: the snubbed-artist query returns exactly the unmatched chart rows whose
\* streaming value strictly exceeds the 90th percentile of the matched rows'
\* values, from the highest value to the lowest.
C9_SnubbedQuery ==
    (pc = "analyzed" /\ MatchedRows # {}) =>
        /\ {overlooked[p] : p \in 1..Len(overlooked)}
               = {k \in UnmatchedRows : 10 * Streams(k) > MatchedPercentile90Times10}
        /\ \A p, q \in 1..Len(overlooked) :
               /\ p # q => overlooked[p] # overlooked[q]
               /\ p < q => Streams(overlooked[p]) >= Streams(overlooked[q])

\* C9's case: matched values [10, 20, 5], unmatched values [100, 1], and the
\* query has returned the row with value 100 alone
C9_Witness ==
    /\ pc = "analyzed"
    /\ [p \in 1..Len(spotify_winners) |-> Streams(spotify_winners[p])] = <<10, 20, 5>>
    /\ [p \in 1..Len(non_grammy_artists) |-> Streams(non_grammy_artists[p])] = <<100, 1>>
    /\ Len(overlooked) = 1
    /\ Streams(overlooked[1]) = 100

=============================================================================
